---- MODULE Spec2Model ----
(***************************************************************************)
(* Model of kyaml/kio/filters/container.go: ContainerFilter scoping,       *)
(* invocation of the external function and merging of its output.          *)
(*                                                                         *)
(* Strings are sequences of tokens.  A token is one character ("a", "2",   *)
(* "x", "y", "_", "/", ".") or an abbreviation of a fixed run of           *)
(* characters ("functions", "yaml", "Foo", "foo", "bar", "ns").  No token  *)
(* is a prefix of another one, so a token sequence is a prefix of another  *)
(* exactly when the strings they spell are.                                *)
(***************************************************************************)
EXTENDS Integers, Sequences, FiniteSets, TLC

----------------------------------------------------------------------------
(* Bounds *)

\* longest input collection handed to Filter
MaxNodes == 2
\* deepest directory of a generated path annotation
MaxDepth == 2
\* most calls of Filter on one ContainerFilter
MaxCalls == 2

----------------------------------------------------------------------------
(* package path, package strings *)

\* index of the last "/" of s, 0 when there is none
RECURSIVE lastSlash(_, _)
lastSlash(s, i) ==
    IF i = 0 THEN 0
    ELSE IF s[i] = "/" THEN i
    ELSE lastSlash(s, i - 1)

\* first index >= r holding a "/", Len(p)+1 when there is none
RECURSIVE nextSlash(_, _)
nextSlash(p, r) ==
    IF r > Len(p) THEN r
    ELSE IF p[r] = "/" THEN r
    ELSE nextSlash(p, r + 1)

\* lazybuf backing up over the last element: w--, then back to the "/"
RECURSIVE backUp(_, _, _)
backUp(out, w, dotdot) ==
    IF w > dotdot /\ out[w + 1] # "/" THEN backUp(out, w - 1, dotdot)
    ELSE SubSeq(out, 1, w)

\* the loop of path.Clean; r is the next token to read, out the buffer,
\* dotdot the length of the prefix of out that ".." cannot remove
RECURSIVE cleanLoop(_, _, _, _, _)
cleanLoop(p, rooted, r, out, dotdot) ==
    IF r > Len(p) THEN out
    ELSE IF p[r] = "/" THEN cleanLoop(p, rooted, r + 1, out, dotdot)
    ELSE IF p[r] = "." /\ (r = Len(p) \/ p[r + 1] = "/")
         THEN cleanLoop(p, rooted, r + 1, out, dotdot)
    ELSE IF p[r] = "." /\ p[r + 1] = "." /\ (r + 1 = Len(p) \/ p[r + 2] = "/")
         THEN IF Len(out) > dotdot
                 THEN cleanLoop(p, rooted, r + 2,
                                backUp(out, Len(out) - 1, dotdot), dotdot)
              ELSE IF ~rooted
                 THEN LET o2 == (IF Len(out) > 0 THEN out \o <<"/">> ELSE out)
                                \o <<".", ".">>
                      IN  cleanLoop(p, rooted, r + 2, o2, Len(o2))
              ELSE cleanLoop(p, rooted, r + 2, out, dotdot)
    ELSE LET o1 == IF (rooted /\ Len(out) # 1) \/ (~rooted /\ Len(out) # 0)
                      THEN out \o <<"/">> ELSE out
             e  == nextSlash(p, r)
         IN  cleanLoop(p, rooted, e, o1 \o SubSeq(p, r, e - 1), dotdot)

\* path.Clean
Clean(p) ==
    IF p = <<>> THEN <<".">>
    ELSE LET rooted == p[1] = "/"
             out    == IF rooted THEN cleanLoop(p, TRUE, 2, <<"/">>, 1)
                                 ELSE cleanLoop(p, FALSE, 1, <<>>, 0)
         IN  IF out = <<>> THEN <<".">> ELSE out

\* path.Dir: everything up to the last slash, cleaned
Dir(p) == Clean(SubSeq(p, 1, lastSlash(p, Len(p))))

\* trailing slashes removed
RECURSIVE stripSlashes(_)
stripSlashes(p) ==
    IF Len(p) > 0 /\ p[Len(p)] = "/" THEN stripSlashes(SubSeq(p, 1, Len(p) - 1))
    ELSE p

\* path.Base: the last element of the path
Base(p) ==
    IF p = <<>> THEN <<".">>
    ELSE LET s == stripSlashes(p)
             t == SubSeq(s, lastSlash(s, Len(s)) + 1, Len(s))
         IN  IF t = <<>> THEN <<"/">> ELSE t

\* strings.HasPrefix
HasPrefix(s, prefix) ==
    Len(s) >= Len(prefix) /\ SubSeq(s, 1, Len(prefix)) = prefix

\* the keyword directory name for functions scoped one directory higher
functionsDirectoryName == <<"functions">>

----------------------------------------------------------------------------
(* Resources: yaml.RNode seen through GetMeta *)

\* id tells the objects apart; metaOk is whether GetMeta succeeds; hasPath
\* and path are the kioutil.PathAnnotation entry of the annotations
Node(id, metaOk, hasPath, path, kind, name, namespace) ==
    [id |-> id, metaOk |-> metaOk, hasPath |-> hasPath, path |-> path,
     kind |-> kind, name |-> name, namespace |-> namespace]

\* an input resource read from a file
FileNode(id, path) == Node(id, TRUE, TRUE, path, <<"Foo">>, <<"a">>, <<>>)
\* an input resource without a path annotation
BareNode(id) == Node(id, TRUE, FALSE, <<>>, <<"Foo">>, <<"a">>, <<>>)
\* a resource whose metadata cannot be read
BrokenNode(id) == Node(id, FALSE, FALSE, <<>>, <<>>, <<>>, <<>>)

\* the file names used for function configs and for resources
fnFile == <<"x", ".", "yaml">>
resFile == <<"y", ".", "yaml">>

----------------------------------------------------------------------------
(* Inputs of the Filter specification *)

\* path annotations of the function config
CfgPaths ==
    { <<"a", "/">> \o fnFile,
      <<"a", "/", "functions", "/">> \o fnFile,
      fnFile }

\* path annotations of the input resources
NodePaths ==
    { <<"a", "/">> \o resFile,
      <<"a", "2", "/">> \o resFile,
      <<"2", "/", "a", "/">> \o resFile }

\* the function configs a ContainerFilter is constructed with
Configs ==
    { FileNode(0, p) : p \in CfgPaths } \cup { BareNode(0), BrokenNode(0) }

\* the resources an input collection is made of, before ids are given
NodeChoices ==
    { FileNode(0, p) : p \in NodePaths } \cup { BareNode(0), BrokenNode(0) }

\* every sequence over S of length at most n
SeqsUpTo(S, n) == UNION { [1..k -> S] : k \in 0..n }

\* the input collections: element i is object number i
NodeLists ==
    { [i \in 1..Len(l) |-> [l[i] EXCEPT !.id = i]] :
        l \in SeqsUpTo(NodeChoices, MaxNodes) }

----------------------------------------------------------------------------
(* Inputs of the path specification *)

\* directory names a generated path is made of
Segs ==
    { <<"a">>, <<"a", "2">>, functionsDirectoryName, <<".">>, <<".", ".">>, <<>> }

\* the directory names of l joined, each followed by a slash
RECURSIVE joinSegs(_)
joinSegs(l) ==
    IF l = <<>> THEN <<>>
    ELSE Head(l) \o <<"/">> \o joinSegs(Tail(l))

\* relative and rooted paths of a file in a directory at most MaxDepth deep
GenPaths(fname) ==
    { (IF rooted THEN <<"/">> ELSE <<>>) \o joinSegs(l) \o fname :
        l \in SeqsUpTo(Segs, MaxDepth), rooted \in BOOLEAN }

----------------------------------------------------------------------------
(* State *)

VARIABLES
    Config,         \* c.Config, the function config
    GlobalScope,    \* c.GlobalScope
    DeferFailure,   \* c.DeferFailure
    ResultsFile,    \* c.ResultsFile # ""
    Results,        \* c.Results
    Exit,           \* c.Exit
    pc,             \* position in Filter
    nodes,          \* the argument of Filter
    functionDir,    \* local of Filter
    input,          \* local of Filter: the in-scope resources
    saved,          \* local of Filter: the out-of-scope resources
    in,             \* the buffer written to the process
    out,            \* what the process wrote to its stdout
    output,         \* local of Filter: the decoded output
    file,           \* content of the results file
    ret,            \* returned collection
    err,            \* returned error
    Image,          \* c.Image
    args,           \* c.args
    cmd,            \* local of Filter: the command
    env,            \* the environment of the program (os.Setenv, os.Environ)
    calls,          \* how many calls of Filter this ContainerFilter has had
    peer,           \* a second ContainerFilter, while the first one runs
    me,             \* which of the two ContainerFilters is running
    runs,           \* how often this execution of Filter called cmd.Run
    proc,           \* the external process: "none", "failed" or "exited"
    ExcludeReconcilers,     \* IsReconcilerFilter.ExcludeReconcilers
    IncludeNonReconcilers,  \* IsReconcilerFilter.IncludeNonReconcilers
    inputs,         \* the argument of IsReconcilerFilter.Filter
    rout,           \* local out of IsReconcilerFilter.Filter
    ri,             \* loop index of IsReconcilerFilter.Filter, 0 before the call
    rdone           \* IsReconcilerFilter.Filter has returned rout, nil

descriptor == <<Config, GlobalScope, DeferFailure, ResultsFile, Image>>
locals == <<nodes, functionDir, input, saved, in, out, output>>
ghost == <<runs, proc>>
reconciler == <<ExcludeReconcilers, IncludeNonReconcilers, inputs, rout, ri, rdone>>
\* what getCommand sets
command == <<args, cmd, env, calls>>
\* what no step of ContainerFilter.Filter touches
aux == <<reconciler, peer, me>>
vars == <<Config, GlobalScope, DeferFailure, ResultsFile, Image, Results, Exit,
          pc, nodes, functionDir, input, saved, in, out, output, file, ret,
          err, ghost, command, aux>>

\* the names of the environment: the two that getArgs sets, and another
EnvNames == {"LOG_TO_STDERR", "STRUCTURED_RESULTS", "HOME"}

\* the environment the program is started in
Ambient ==
    [n \in EnvNames |-> IF n = "HOME" THEN "/root" ELSE "unset"]

\* an environment in which one of the two names is already set
AmbientSet == [Ambient EXCEPT !["LOG_TO_STDERR"] = "false"]

\* c.args before getCommand has filled it, and cmd before getCommand
NoArgs == [prog |-> "", exported |-> {}, image |-> ""]
NoCmd == [args |-> NoArgs, env |-> Ambient]

\* no second ContainerFilter
NoPeer == [pc |-> "none"]

\* what the process wrote before anything was run
NoOut == [exit |-> "nil", garbage |-> FALSE, items |-> <<>>, results |-> "nil"]

TypeOK ==
    /\ GlobalScope \in BOOLEAN /\ DeferFailure \in BOOLEAN
    /\ ResultsFile \in BOOLEAN
    /\ Results \in {"nil", "doc", "doc2"}
    /\ Image \in {"img", "img2"}
    /\ me \in {1, 2}
    /\ Exit \in {"nil", "exit", "spawn"}
    /\ out.exit \in {"nil", "exit", "spawn"}
    /\ err \in {"nil", "meta", "encode", "decode", "write", "exit", "spawn"}

\* an IsReconcilerFilter that is not used
NoReconciler ==
    /\ ExcludeReconcilers = FALSE
    /\ IncludeNonReconcilers = FALSE
    /\ inputs = <<>>
    /\ rout = <<>>
    /\ ri = 0
    /\ rdone = FALSE

Init ==
    /\ NoReconciler
    /\ Image = "img"
    /\ args = NoArgs
    /\ cmd = NoCmd
    /\ env = Ambient
    /\ calls = 0
    /\ peer = NoPeer
    /\ me = 1
    /\ runs = 0
    /\ proc = "none"
    /\ Config \in Configs
    /\ GlobalScope \in BOOLEAN
    /\ DeferFailure \in BOOLEAN
    /\ ResultsFile \in BOOLEAN
    /\ Results = "nil"
    /\ Exit = "nil"
    /\ pc = "idle"
    /\ nodes = <<>>
    /\ functionDir = <<>>
    /\ input = <<>>
    /\ saved = <<>>
    /\ in = <<>>
    /\ out = NoOut
    /\ output = <<>>
    /\ file = "nil"
    /\ ret = <<>>
    /\ err = "nil"

----------------------------------------------------------------------------
(* getFunctionScope and scope *)

\* getFunctionScope without the rule for a directory named "functions"
getFunctionScopePlain(c) ==
    IF ~c.metaOk THEN [dir |-> <<>>, err |-> "meta"]
    ELSE IF ~c.hasPath THEN [dir |-> <<>>, err |-> "nil"]
    ELSE [dir |-> Clean(Dir(c.path)), err |-> "nil"]

\* getFunctionScope: the directory of the function config, or its parent
\* when that directory is named "functions"; "" without a path annotation
getFunctionScope(c) ==
    IF ~c.metaOk THEN [dir |-> <<>>, err |-> "meta"]
    ELSE IF ~c.hasPath THEN [dir |-> <<>>, err |-> "nil"]
    ELSE LET fdir == Clean(Dir(c.path))
         IN  [dir |-> IF Base(fdir) = functionsDirectoryName
                         THEN Dir(fdir) ELSE fdir,
              err |-> "nil"]

\* resourceDir without the rule for a directory named "functions"
resourceDirPlain(p) == Clean(Dir(p))

\* the directory scope compares: the resource's directory, or its parent
\* when that directory is named "functions"
resourceDir(p) ==
    LET rdir == Clean(Dir(p))
    IN  IF Base(rdir) = functionsDirectoryName THEN Dir(rdir) ELSE rdir

\* whether scope keeps the resource with path annotation p for the function
underDir(p, dir) == HasPrefix(resourceDir(p), dir)

\* scopeLoop losing the resources that have no path annotation
RECURSIVE scopeLoopDrop(_, _, _, _, _)
scopeLoopDrop(dir, ns, i, inp, sav) ==
    IF i > Len(ns) THEN [input |-> inp, saved |-> sav, err |-> "nil"]
    ELSE IF ~ns[i].metaOk THEN [input |-> <<>>, saved |-> <<>>, err |-> "meta"]
    ELSE IF ~ns[i].hasPath THEN scopeLoopDrop(dir, ns, i + 1, inp, sav)
    ELSE IF ~underDir(ns[i].path, dir)
         THEN scopeLoopDrop(dir, ns, i + 1, inp, Append(sav, ns[i]))
    ELSE scopeLoopDrop(dir, ns, i + 1, Append(inp, ns[i]), sav)

\* scopeLoop taking the resources that have no path annotation as in scope
RECURSIVE scopeLoopBare(_, _, _, _, _)
scopeLoopBare(dir, ns, i, inp, sav) ==
    IF i > Len(ns) THEN [input |-> inp, saved |-> sav, err |-> "nil"]
    ELSE IF ~ns[i].metaOk THEN [input |-> <<>>, saved |-> <<>>, err |-> "meta"]
    ELSE IF ~ns[i].hasPath THEN scopeLoopBare(dir, ns, i + 1, Append(inp, ns[i]), sav)
    ELSE IF ~underDir(ns[i].path, dir)
         THEN scopeLoopBare(dir, ns, i + 1, inp, Append(sav, ns[i]))
    ELSE scopeLoopBare(dir, ns, i + 1, Append(inp, ns[i]), sav)

\* scopeLoop putting each in-scope resource in front of the earlier ones
RECURSIVE scopeLoopFront(_, _, _, _, _)
scopeLoopFront(dir, ns, i, inp, sav) ==
    IF i > Len(ns) THEN [input |-> inp, saved |-> sav, err |-> "nil"]
    ELSE IF ~ns[i].metaOk THEN [input |-> <<>>, saved |-> <<>>, err |-> "meta"]
    ELSE IF ~ns[i].hasPath THEN scopeLoopFront(dir, ns, i + 1, inp, Append(sav, ns[i]))
    ELSE IF ~underDir(ns[i].path, dir)
         THEN scopeLoopFront(dir, ns, i + 1, inp, Append(sav, ns[i]))
    ELSE scopeLoopFront(dir, ns, i + 1, <<ns[i]>> \o inp, sav)

\* the loop of scope over nodes[i..]
RECURSIVE scopeLoop(_, _, _, _, _)
scopeLoop(dir, ns, i, inp, sav) ==
    IF i > Len(ns) THEN [input |-> inp, saved |-> sav, err |-> "nil"]
    ELSE IF ~ns[i].metaOk THEN [input |-> <<>>, saved |-> <<>>, err |-> "meta"]
    ELSE IF ~ns[i].hasPath THEN scopeLoop(dir, ns, i + 1, inp, Append(sav, ns[i]))
    ELSE IF ~underDir(ns[i].path, dir)
         THEN scopeLoop(dir, ns, i + 1, inp, Append(sav, ns[i]))
    ELSE scopeLoop(dir, ns, i + 1, Append(inp, ns[i]), sav)

\* scope: the resources under dir and the others
scope(global, dir, ns) ==
    IF global THEN [input |-> ns, saved |-> <<>>, err |-> "nil"]
    ELSE IF dir = <<>> \/ dir = <<".">>
         THEN [input |-> ns, saved |-> <<>>, err |-> "nil"]
    ELSE scopeLoop(dir, ns, 1, <<>>, <<>>)

----------------------------------------------------------------------------
(* The wire format, the external process and kioutil *)

\* kio.ByteWriter.Write with KeepReaderAnnotations: the function config and
\* the resources, in order, with their annotations
payload(c, ns) == [config |-> c, items |-> ns]

\* the resources a process reads back from its stdin are new objects
echo(items) == [i \in 1..Len(items) |-> [items[i] EXCEPT !.id = 100 + i]]

\* a resource generated by the function: kind Foo, name bar
NewNode(id, namespace) ==
    Node(id, TRUE, FALSE, <<>>, <<"Foo">>, <<"bar">>, namespace)

\* the resource lists a function may write for the payload it was given
Emitted(pl) ==
    LET e == echo(pl.items)
        k == 100 + Len(e)
    IN  { <<>>,
          e,
          e \o <<NewNode(k + 1, <<>>)>>,
          e \o <<FileNode(k + 1, <<"2", "/">> \o resFile)>>,
          <<NewNode(k + 1, <<"ns">>), NewNode(k + 2, <<>>)>>,
          <<BrokenNode(k + 1)>> }

\* strings.ToLower
ToLower(s) == [i \in 1..Len(s) |-> IF s[i] = "Foo" THEN "foo" ELSE s[i]]

\* path.Join: the non-empty elements joined by slashes, cleaned
RECURSIVE joinNonEmpty(_)
joinNonEmpty(elems) ==
    IF elems = <<>> THEN <<>>
    ELSE IF Head(elems) = <<>> THEN joinNonEmpty(Tail(elems))
    ELSE LET rest == joinNonEmpty(Tail(elems))
         IN  IF rest = <<>> THEN Head(elems) ELSE Head(elems) \o <<"/">> \o rest

Join(elems) ==
    LET j == joinNonEmpty(elems)
    IN  IF j = <<>> THEN <<>> ELSE Clean(j)

\* the default path of a generated resource: dir/namespace/kind_name.yaml
defaultPath(dir, n) ==
    Join(<<dir, n.namespace,
           ToLower(n.kind) \o <<"_">> \o n.name \o <<".", "yaml">>>>)

\* kioutil.DefaultPathAnnotation(dir, nodes): a path annotation for every
\* resource that has none
DefaultPathAnnotation(dir, ns) ==
    IF \E i \in 1..Len(ns) : ~ns[i].metaOk
       THEN [nodes |-> ns, err |-> "meta"]
    ELSE [nodes |-> [i \in 1..Len(ns) |->
                        IF ns[i].hasPath THEN ns[i]
                        ELSE [ns[i] EXCEPT !.hasPath = TRUE,
                                           !.path = defaultPath(dir, ns[i])]],
          err |-> "nil"]

\* GetExit
GetExit == Exit

\* failsNow taking no notice of DeferFailure
failsNowAlways(exit, defer) == exit # "nil"

\* failsNow never failing
failsNowNever(exit, defer) == FALSE

\* c.Exit after cmd.Run returned e
recordExit(old, e) == e

\* c.Results after doResults was given the results r of the reader
recordResults(old, r) == IF r # "nil" THEN r ELSE old

\* the results document a function may write in the k-th call
DocOf(k) == IF k <= 1 THEN "doc" ELSE "doc2"

\* Filter fails at once on a failed run unless the failure is deferred
failsNow(exit, defer) == exit # "nil" /\ ~defer

\* merge with the out-of-scope resources first
mergeSavedFirst(o, s) == s \o o

\* the collection Filter returns: the function's output, then the
\* out-of-scope resources
merge(o, s) == o \o s

\* finish giving default paths to the out-of-scope resources as well
finishAll(dir, o, s) ==
    LET r == DefaultPathAnnotation(dir, merge(o, s))
    IN  [nodes |-> SubSeq(r.nodes, 1, Len(o)), ret |-> r.nodes, err |-> r.err]

\* the end of Filter: default paths for the function's output, which is
\* returned followed by the out-of-scope resources
finish(dir, o, s) ==
    LET r == DefaultPathAnnotation(dir, o)
    IN  [nodes |-> r.nodes, ret |-> merge(r.nodes, s), err |-> r.err]

----------------------------------------------------------------------------
(* Filter, step by step *)

\* Fail returning what the function wrote and the out-of-scope resources
FailKeep(e) ==
    /\ ret' = merge(output, saved)
    /\ err' = e
    /\ pc' = "done"

\* return nil, e
Fail(e) ==
    /\ ret' = <<>>
    /\ err' = e
    /\ pc' = "done"

\* os.Setenv of the two names that tell the function how to report
setenv(e) ==
    [e EXCEPT !["LOG_TO_STDERR"] = "true", !["STRUCTURED_RESULTS"] = "true"]

\* getArgs: docker run, a -e for every name of the environment after the
\* two were set, and the image
getArgs(image, e) ==
    [prog |-> "docker",
     exported |-> { n \in EnvNames : setenv(e)[n] # "unset" },
     image |-> image]

\* Filter(ns) is called with one of the collections lists: getCommand
Call(lists) ==
    /\ pc = "idle"
    /\ \E ns \in lists : nodes' = ns
    /\ IF args = NoArgs
          THEN /\ args' = getArgs(Image, env)
               /\ env' = setenv(env)
          ELSE UNCHANGED <<args, env>>
    /\ cmd' = [args |-> args', env |-> env']
    /\ calls' = calls + 1
    /\ pc' = "getFunctionScope"
    /\ UNCHANGED <<descriptor, Results, Exit, functionDir, input, saved, in,
                   out, output, file, ret, err>>
    /\ UNCHANGED <<ghost, aux>>

\* Filter is called with an input collection
FilterCall == Call(NodeLists)

\* functionDir, err := c.getFunctionScope()
GetFunctionScope ==
    /\ pc = "getFunctionScope"
    /\ LET r == getFunctionScope(Config)
       IN  IF r.err # "nil"
              THEN Fail(r.err) /\ UNCHANGED functionDir
              ELSE /\ functionDir' = r.dir
                   /\ pc' = "scope"
                   /\ UNCHANGED <<ret, err>>
    /\ UNCHANGED <<descriptor, Results, Exit, nodes, input, saved, in, out,
                   output, file>>
    /\ UNCHANGED <<ghost, aux, command>>

\* input, saved, err := c.scope(functionDir, nodes)
Scope ==
    /\ pc = "scope"
    /\ LET r == scope(GlobalScope, functionDir, nodes)
       IN  IF r.err # "nil"
              THEN Fail(r.err) /\ UNCHANGED <<input, saved>>
              ELSE /\ input' = r.input
                   /\ saved' = r.saved
                   /\ pc' = "write"
                   /\ UNCHANGED <<ret, err>>
    /\ UNCHANGED <<descriptor, Results, Exit, nodes, functionDir, in, out,
                   output, file>>
    /\ UNCHANGED <<ghost, aux, command>>

\* kio.ByteWriter{...}.Write(input)
Write ==
    /\ pc = "write"
    /\ \E ok \in BOOLEAN :
          IF ok THEN /\ in' = payload(Config, input)
                     /\ pc' = "run"
                     /\ UNCHANGED <<ret, err>>
                ELSE Fail("encode") /\ UNCHANGED in
    /\ UNCHANGED <<descriptor, Results, Exit, nodes, functionDir, input,
                   saved, out, output, file>>
    /\ UNCHANGED <<ghost, aux, command>>

\* c.Exit = cmd.Run(): the process cannot be started, or it runs, writes
\* its stdout and exits
Run ==
    /\ pc = "run"
    /\ \/ out' = [NoOut EXCEPT !.exit = "spawn"]
       \/ \E e \in {"nil", "exit"} :
             \/ out' = [exit |-> e, garbage |-> TRUE, items |-> <<>>,
                        results |-> "nil"]
             \/ \E items \in Emitted(in), res \in {"nil", DocOf(calls)} :
                   out' = [exit |-> e, garbage |-> FALSE, items |-> items,
                           results |-> res]
    /\ Exit' = recordExit(Exit, out'.exit)
    /\ runs' = runs + 1
    /\ proc' = IF out'.exit = "spawn" THEN "failed" ELSE "exited"
    /\ pc' = "read"
    /\ UNCHANGED <<descriptor, Results, nodes, functionDir, input, saved, in,
                   output, file, ret, err>>
    /\ UNCHANGED <<aux, command>>

\* Read running the process again when its output does not decode
ReadRetry ==
    /\ pc = "read"
    /\ IF out.garbage
          THEN pc' = "run" /\ UNCHANGED <<output, ret, err>>
          ELSE /\ output' = out.items
               /\ pc' = "doResults"
               /\ UNCHANGED <<ret, err>>
    /\ UNCHANGED <<descriptor, Results, Exit, nodes, functionDir, input,
                   saved, in, out, file>>
    /\ UNCHANGED <<ghost, aux, command>>

\* output, err := r.Read()
Read ==
    /\ pc = "read"
    /\ IF out.garbage
          THEN Fail("decode") /\ UNCHANGED output
          ELSE /\ output' = out.items
               /\ pc' = "doResults"
               /\ UNCHANGED <<ret, err>>
    /\ UNCHANGED <<descriptor, Results, Exit, nodes, functionDir, input,
                   saved, in, out, file>>
    /\ UNCHANGED <<ghost, aux, command>>

\* c.doResults(r)
DoResults ==
    /\ pc = "doResults"
    /\ IF ResultsFile /\ out.results # "nil"
          THEN \E ok \in BOOLEAN :
                  IF ok THEN /\ file' = out.results
                             /\ Results' = recordResults(Results, out.results)
                             /\ pc' = "exitCheck"
                             /\ UNCHANGED <<ret, err>>
                        ELSE Fail("write") /\ UNCHANGED <<file, Results>>
          ELSE /\ Results' = recordResults(Results, out.results)
               /\ pc' = "exitCheck"
               /\ UNCHANGED <<file, ret, err>>
    /\ UNCHANGED <<descriptor, Exit, nodes, functionDir, input, saved, in,
                   out, output>>
    /\ UNCHANGED <<ghost, aux, command>>

\* if c.Exit != nil && !c.DeferFailure
ExitCheck ==
    /\ pc = "exitCheck"
    /\ IF failsNow(Exit, DeferFailure)
          THEN /\ ret' = merge(output, saved)
               /\ err' = Exit
               /\ pc' = "done"
          ELSE /\ pc' = "defaultPath"
               /\ UNCHANGED <<ret, err>>
    /\ UNCHANGED <<descriptor, Results, Exit, nodes, functionDir, input,
                   saved, in, out, output, file>>
    /\ UNCHANGED <<ghost, aux, command>>

\* kioutil.DefaultPathAnnotation(functionDir, output) and the return
Finish ==
    /\ pc = "defaultPath"
    /\ LET r == finish(functionDir, output, saved)
       IN  IF r.err # "nil"
              THEN Fail(r.err) /\ UNCHANGED output
              ELSE /\ output' = r.nodes
                   /\ ret' = r.ret
                   /\ err' = "nil"
                   /\ pc' = "done"
    /\ UNCHANGED <<descriptor, Results, Exit, nodes, functionDir, input,
                   saved, in, out, file>>
    /\ UNCHANGED <<ghost, aux, command>>

Next ==
    \/ FilterCall
    \/ GetFunctionScope
    \/ Scope
    \/ Write
    \/ Run
    \/ Read
    \/ DoResults
    \/ ExitCheck
    \/ Finish

Spec == Init /\ [][Next]_vars

----------------------------------------------------------------------------
(* Several calls of Filter on one ContainerFilter *)

\* the input collections of at most one resource
ShortLists == { l \in NodeLists : Len(l) <= 1 }

\* Filter is called with a short input collection
FilterCallShort == Call(ShortLists)

\* Filter has returned and the caller, who may have set another Image,
\* is about to call it again: the locals of Filter are new ones
Again ==
    /\ pc = "done"
    /\ calls < MaxCalls
    /\ pc' = "idle"
    /\ Image' \in {"img", "img2"}
    /\ nodes' = <<>>
    /\ functionDir' = <<>>
    /\ input' = <<>>
    /\ saved' = <<>>
    /\ in' = <<>>
    /\ out' = NoOut
    /\ output' = <<>>
    /\ ret' = <<>>
    /\ err' = "nil"
    /\ runs' = 0
    /\ proc' = "none"
    /\ UNCHANGED <<Config, GlobalScope, DeferFailure, ResultsFile, Results,
                   Exit, file, command, aux>>

NextCalls ==
    \/ FilterCallShort
    \/ GetFunctionScope
    \/ Scope
    \/ Write
    \/ Run
    \/ Read
    \/ DoResults
    \/ ExitCheck
    \/ Finish
    \/ Again

SpecCalls == Init /\ [][NextCalls]_vars

----------------------------------------------------------------------------
(* Two ContainerFilters whose calls of Filter run at the same time *)

\* the ContainerFilter that is running and its execution of Filter
Me ==
    [Config |-> Config, GlobalScope |-> GlobalScope,
     DeferFailure |-> DeferFailure, ResultsFile |-> ResultsFile,
     Image |-> Image, Results |-> Results, Exit |-> Exit, pc |-> pc,
     nodes |-> nodes, functionDir |-> functionDir, input |-> input,
     saved |-> saved, in |-> in, out |-> out, output |-> output,
     file |-> file, ret |-> ret, err |-> err, runs |-> runs, proc |-> proc,
     args |-> args, cmd |-> cmd, calls |-> calls]

\* a ContainerFilter with these fields on which Filter was not called
IdleFilter(config, global, defer, results, image) ==
    [Config |-> config, GlobalScope |-> global, DeferFailure |-> defer,
     ResultsFile |-> results, Image |-> image, Results |-> "nil",
     Exit |-> "nil", pc |-> "idle", nodes |-> <<>>, functionDir |-> <<>>,
     input |-> <<>>, saved |-> <<>>, in |-> <<>>, out |-> NoOut,
     output |-> <<>>, file |-> "nil", ret |-> <<>>, err |-> "nil",
     runs |-> 0, proc |-> "none", args |-> NoArgs, cmd |-> NoCmd,
     calls |-> 0]

\* the fields and locals of the ContainerFilter that runs are those of r
Running(r) ==
    /\ Config = r.Config /\ GlobalScope = r.GlobalScope
    /\ DeferFailure = r.DeferFailure /\ ResultsFile = r.ResultsFile
    /\ Image = r.Image /\ Results = r.Results /\ Exit = r.Exit /\ pc = r.pc
    /\ nodes = r.nodes /\ functionDir = r.functionDir /\ input = r.input
    /\ saved = r.saved /\ in = r.in /\ out = r.out /\ output = r.output
    /\ file = r.file /\ ret = r.ret /\ err = r.err /\ runs = r.runs
    /\ proc = r.proc /\ args = r.args /\ cmd = r.cmd /\ calls = r.calls

\* the input collections of the two calls
ParLists ==
    { l \in ShortLists : Len(l) = 1 /\ l[1].metaOk /\ l[1].hasPath
                          /\ l[1].path # <<"a", "2", "/">> \o resFile }

InitPar ==
    /\ NoReconciler
    /\ env \in {Ambient, AmbientSet}
    /\ me = 1
    /\ \E d \in BOOLEAN :
          Running(IdleFilter(FileNode(0, <<"a", "/">> \o fnFile),
                             FALSE, d, TRUE, "img"))
    /\ \E d \in BOOLEAN :
          peer = IdleFilter(FileNode(0, <<"a", "/">> \o fnFile),
                            FALSE, d, TRUE, "img2")

\* Filter is called on the ContainerFilter that runs
FilterCallPar == Call(ParLists)

\* Switch with one Exit for the two ContainerFilters
SwitchSharedExit ==
    /\ peer.pc # "none"
    /\ peer' = Me
    /\ me' = 3 - me
    /\ Config' = peer.Config /\ GlobalScope' = peer.GlobalScope
    /\ DeferFailure' = peer.DeferFailure /\ ResultsFile' = peer.ResultsFile
    /\ Image' = peer.Image /\ Results' = peer.Results /\ Exit' = Exit
    /\ pc' = peer.pc /\ nodes' = peer.nodes
    /\ functionDir' = peer.functionDir /\ input' = peer.input
    /\ saved' = peer.saved /\ in' = peer.in /\ out' = peer.out
    /\ output' = peer.output /\ file' = peer.file /\ ret' = peer.ret
    /\ err' = peer.err /\ runs' = peer.runs /\ proc' = peer.proc
    /\ args' = peer.args /\ cmd' = peer.cmd /\ calls' = peer.calls
    /\ UNCHANGED <<env, reconciler>>

\* the other ContainerFilter goes on: each of the two has its own fields,
\* and each call of Filter its own locals; the environment is the
\* program's
Switch ==
    /\ peer.pc # "none"
    /\ peer' = Me
    /\ me' = 3 - me
    /\ Config' = peer.Config /\ GlobalScope' = peer.GlobalScope
    /\ DeferFailure' = peer.DeferFailure /\ ResultsFile' = peer.ResultsFile
    /\ Image' = peer.Image /\ Results' = peer.Results /\ Exit' = peer.Exit
    /\ pc' = peer.pc /\ nodes' = peer.nodes
    /\ functionDir' = peer.functionDir /\ input' = peer.input
    /\ saved' = peer.saved /\ in' = peer.in /\ out' = peer.out
    /\ output' = peer.output /\ file' = peer.file /\ ret' = peer.ret
    /\ err' = peer.err /\ runs' = peer.runs /\ proc' = peer.proc
    /\ args' = peer.args /\ cmd' = peer.cmd /\ calls' = peer.calls
    /\ UNCHANGED <<env, reconciler>>

NextPar ==
    \/ FilterCallPar
    \/ GetFunctionScope
    \/ Scope
    \/ Write
    \/ Run
    \/ Read
    \/ DoResults
    \/ ExitCheck
    \/ Finish
    \/ Switch

SpecPar == InitPar /\ [][NextPar]_vars

----------------------------------------------------------------------------
(* IsReconcilerFilter *)

\* a resource as GetFunctionSpec sees it: its apiVersion names a container
\* image or not, and it has a function annotation or not
RecNode(id, image, annotated) ==
    [id |-> id, image |-> image, annotated |-> annotated]

\* the resources an input collection of IsReconcilerFilter is made of
RecChoices == { RecNode(0, im, an) : im \in BOOLEAN, an \in BOOLEAN }

\* the input collections: element i is object number i
RecLists ==
    { [i \in 1..Len(l) |-> [l[i] EXCEPT !.id = i]] :
        l \in SeqsUpTo(RecChoices, MaxNodes) }

\* GetFunctionSpec(n) != nil
isFnResource(n) == n.image \/ n.annotated

\* the first test of the loop: a reconciler that is not excluded
keepReconciler(isFn, exclude) == isFn /\ ~exclude

\* keepOther without the test that the resource is no reconciler
keepOtherAny(isFn, include) == include

\* the second test of the loop: a non-reconciler that is included
keepOther(isFn, include) == ~isFn /\ include

\* a ContainerFilter that is not used
NoContainerFilter ==
    /\ Config = BareNode(0)
    /\ GlobalScope = FALSE
    /\ DeferFailure = FALSE
    /\ ResultsFile = FALSE
    /\ Results = "nil"
    /\ Exit = "nil"
    /\ pc = "idle"
    /\ nodes = <<>>
    /\ functionDir = <<>>
    /\ input = <<>>
    /\ saved = <<>>
    /\ in = <<>>
    /\ out = NoOut
    /\ output = <<>>
    /\ file = "nil"
    /\ ret = <<>>
    /\ err = "nil"
    /\ runs = 0
    /\ proc = "none"
    /\ Image = "img"
    /\ args = NoArgs
    /\ cmd = NoCmd
    /\ env = Ambient
    /\ calls = 0
    /\ peer = NoPeer
    /\ me = 1

InitReconciler ==
    /\ NoContainerFilter
    /\ ExcludeReconcilers \in BOOLEAN
    /\ IncludeNonReconcilers \in BOOLEAN
    /\ inputs = <<>>
    /\ rout = <<>>
    /\ ri = 0
    /\ rdone = FALSE

\* what no step of IsReconcilerFilter.Filter touches
containerFilter ==
    <<Config, GlobalScope, DeferFailure, ResultsFile, Image, Results, Exit, pc,
      nodes, functionDir, input, saved, in, out, output, file, ret, err, ghost,
      command, peer, me>>

\* IsReconcilerFilter.Filter(inputs) is called: var out []*yaml.RNode
ReconcilerCall ==
    /\ ri = 0
    /\ \E l \in RecLists : inputs' = l
    /\ rout' = <<>>
    /\ ri' = 1
    /\ UNCHANGED <<ExcludeReconcilers, IncludeNonReconcilers, rdone,
                   containerFilter>>

\* one turn of the loop over inputs
ReconcilerLoop ==
    /\ ri >= 1 /\ ri <= Len(inputs)
    /\ LET isFn == isFnResource(inputs[ri])
           a == IF keepReconciler(isFn, ExcludeReconcilers)
                   THEN <<inputs[ri]>> ELSE <<>>
           b == IF keepOther(isFn, IncludeNonReconcilers)
                   THEN <<inputs[ri]>> ELSE <<>>
       IN  rout' = rout \o a \o b
    /\ ri' = ri + 1
    /\ UNCHANGED <<ExcludeReconcilers, IncludeNonReconcilers, inputs, rdone,
                   containerFilter>>

\* return out, nil
ReconcilerReturn ==
    /\ ri = Len(inputs) + 1
    /\ ~rdone
    /\ rdone' = TRUE
    /\ UNCHANGED <<ExcludeReconcilers, IncludeNonReconcilers, inputs, rout,
                   ri, containerFilter>>

NextReconciler ==
    \/ ReconcilerCall
    \/ ReconcilerLoop
    \/ ReconcilerReturn

SpecReconciler == InitReconciler /\ [][NextReconciler]_vars

----------------------------------------------------------------------------
(* The path specification: getFunctionScope and scope on generated paths *)

InitPath ==
    /\ NoReconciler
    /\ Image = "img"
    /\ args = NoArgs
    /\ cmd = NoCmd
    /\ env = Ambient
    /\ calls = 1
    /\ peer = NoPeer
    /\ me = 1
    /\ runs = 0
    /\ proc = "none"
    /\ Config \in { FileNode(0, p) : p \in GenPaths(fnFile) } \cup { BareNode(0) }
    /\ nodes \in { <<FileNode(1, q)>> : q \in GenPaths(resFile) }
                 \cup { <<BareNode(1)>> }
    /\ GlobalScope = FALSE
    /\ DeferFailure = FALSE
    /\ ResultsFile = FALSE
    /\ Results = "nil"
    /\ Exit = "nil"
    /\ pc = "getFunctionScope"
    /\ functionDir = <<>>
    /\ input = <<>>
    /\ saved = <<>>
    /\ in = <<>>
    /\ out = NoOut
    /\ output = <<>>
    /\ file = "nil"
    /\ ret = <<>>
    /\ err = "nil"

NextPath ==
    \/ GetFunctionScope
    \/ Scope

SpecPath == InitPath /\ [][NextPath]_vars

----------------------------------------------------------------------------
(* Vocabulary of the properties *)

\* scope has returned its two buckets and Filter has not returned yet
Scoped == pc \in {"write", "run", "read", "doResults", "exitCheck", "defaultPath"}

\* the scope directory is neither empty nor the root "."
Rooted(dir) == dir # <<>> /\ dir # <<".">>

\* how often the object id occurs in the collection l
Count(l, id) == Cardinality({ i \in DOMAIN l : l[i].id = id })

\* the objects of l, in order
Ids(l) == [i \in DOMAIN l |-> l[i].id]

\* l is a subsequence of the input collection: the same objects, unchanged,
\* in increasing position
IsSubSeqOfNodes(l) ==
    /\ \A i \in DOMAIN l : l[i].id \in DOMAIN nodes /\ l[i] = nodes[l[i].id]
    /\ \A i, j \in DOMAIN l : i < j => l[i].id < l[j].id

\* the names between the slashes of p
RECURSIVE splitFrom(_, _, _)
splitFrom(p, i, cur) ==
    IF i > Len(p) THEN <<cur>>
    ELSE IF p[i] = "/" THEN <<cur>> \o splitFrom(p, i + 1, <<>>)
    ELSE splitFrom(p, i + 1, Append(cur, p[i]))

Names(p) == splitFrom(p, 1, <<>>)

\* the directory, as a list of names, that the names l lead to: "" and "."
\* stay in place, ".." goes up where it can and stays at the top of a
\* relative path
RECURSIVE walk(_, _, _)
walk(l, rooted, stack) ==
    IF l = <<>> THEN stack
    ELSE LET n == Head(l)
         IN  IF n = <<>> \/ n = <<".">> THEN walk(Tail(l), rooted, stack)
             ELSE IF n = <<".", ".">>
                  THEN IF stack # <<>> /\ stack[Len(stack)] # <<".", ".">>
                          THEN walk(Tail(l), rooted, SubSeq(stack, 1, Len(stack) - 1))
                       ELSE IF rooted THEN walk(Tail(l), rooted, stack)
                       ELSE walk(Tail(l), rooted, Append(stack, n))
             ELSE walk(Tail(l), rooted, Append(stack, n))

\* the directory of the file p as a list of names
DirNames(p) ==
    LET l == Names(p)
    IN  walk(SubSeq(l, 1, Len(l) - 1), p # <<>> /\ p[1] = "/", <<>>)

\* the names l written as a path
RECURSIVE slashed(_)
slashed(l) ==
    IF Len(l) = 1 THEN l[1] ELSE l[1] \o <<"/">> \o slashed(Tail(l))

Written(l, rooted) ==
    IF l = <<>> THEN (IF rooted THEN <<"/">> ELSE <<".">>)
    ELSE (IF rooted THEN <<"/">> ELSE <<>>) \o slashed(l)

\* the directory d is the directory e or lies below it, name by name
Below(d, e) == Len(d) >= Len(e) /\ SubSeq(d, 1, Len(e)) = e

----------------------------------------------------------------------------
(* Properties *)

\* C1: scope is a strict partition: every input resource is in exactly one
\* of the two buckets, unchanged, and nothing else is in them; with
\* GlobalScope, or an empty or "." scope directory, the buckets are the
\* whole input and nothing.
C1_Partition ==
    Scoped =>
        /\ \A i \in DOMAIN nodes : Count(input, i) + Count(saved, i) = 1
        /\ Len(input) + Len(saved) = Len(nodes)
        /\ \A i \in DOMAIN input : input[i] = nodes[input[i].id]
        /\ \A i \in DOMAIN saved : saved[i] = nodes[saved[i].id]
        /\ (GlobalScope \/ ~Rooted(functionDir)) =>
              (input = nodes /\ saved = <<>>)

\* C1 witness: a split with a resource on each side
C1_Witness ==
    Scoped /\ ~GlobalScope /\ input # <<>> /\ saved # <<>>

\* C2 as claimed: without GlobalScope and with a scope directory D, a
\* resource whose rewritten directory only shares a string prefix with D,
\* being neither D nor below D, is out of scope and is not sent to the
\* function.
C2_SegmentAware ==
    (pc \in {"write", "run", "read"} /\ ~GlobalScope /\ Rooted(functionDir)) =>
        \A i \in DOMAIN nodes :
            (/\ nodes[i].hasPath
             /\ HasPrefix(resourceDir(nodes[i].path), functionDir)
             /\ ~Below(Names(resourceDir(nodes[i].path)), Names(functionDir)))
            => /\ Count(saved, i) = 1
               /\ Count(input, i) = 0
               /\ pc # "write" => \A k \in DOMAIN in.items : in.items[k].id # i

\* C3 as claimed: without GlobalScope and with a scope directory D, a
\* resource is in scope when its path annotation puts it in D or below D,
\* and out of scope when it puts it anywhere else.
C3_UnderScope ==
    (Scoped /\ ~GlobalScope /\ Rooted(functionDir)) =>
        \A i \in DOMAIN nodes :
            nodes[i].hasPath =>
                IF Below(DirNames(nodes[i].path), Names(functionDir))
                   THEN Count(input, i) = 1
                   ELSE Count(saved, i) = 1

\* C4: without GlobalScope and with a scope directory that is neither
\* empty nor ".", every resource without a path annotation is out of scope
\* and not in scope.
C4_UnknownExcluded ==
    (Scoped /\ ~GlobalScope /\ Rooted(functionDir)) =>
        \A i \in DOMAIN nodes :
            ~nodes[i].hasPath => Count(saved, i) = 1 /\ Count(input, i) = 0

\* C4 witness: a split that held back a resource without a path annotation
\* and kept another for the function
C4_Witness ==
    /\ Scoped /\ ~GlobalScope /\ Rooted(functionDir)
    /\ \E i \in DOMAIN nodes : ~nodes[i].hasPath
    /\ input # <<>>

\* C9: each bucket of scope is a subsequence of the input collection.
C9_OrderKept ==
    Scoped => IsSubSeqOfNodes(input) /\ IsSubSeqOfNodes(saved)

\* C9 witness: a split with two resources in scope
C9_Witness ==
    Scoped /\ ~GlobalScope /\ Rooted(functionDir) /\ Len(input) >= 2

\* C5 as claimed: when the process exits non-zero and its output decodes,
\* Filter returns the decoded output followed by the out-of-scope resources,
\* with the exit error when DeferFailure is unset, and with no error when
\* it is set, GetExit() then giving the exit error.
C5_NonZeroExit ==
    (pc = "done" /\ out.exit = "exit" /\ ~out.garbage) =>
        /\ Ids(ret) = Ids(out.items) \o Ids(saved)
        /\ IF DeferFailure THEN err = "nil" /\ GetExit = "exit"
                           ELSE err = "exit"

\* C5 amended: the same, when moreover writing the results file did not
\* fail and, with DeferFailure set, giving the output its default paths
\* did not fail.
C5_NonZeroExitAmended ==
    (pc = "done" /\ out.exit = "exit" /\ ~out.garbage
        /\ err \notin {"write", "meta"}) =>
        /\ Ids(ret) = Ids(out.items) \o Ids(saved)
        /\ IF DeferFailure THEN err = "nil" /\ GetExit = "exit"
                           ELSE err = "exit"

\* C5 witness: a deferred failure returning output and out-of-scope
\* resources
C5_Witness ==
    /\ pc = "done" /\ out.exit = "exit" /\ DeferFailure /\ err = "nil"
    /\ out.items # <<>> /\ saved # <<>>
    /\ GetExit = "exit"

\* the function config lies in a directory named "functions"
InFunctionsDir(p) ==
    LET l == Names(p)
    IN  Len(l) >= 2 /\ l[Len(l) - 1] = functionsDirectoryName

\* C6: getFunctionScope gives the cleaned directory of the function
\* config's path annotation, or the parent of that directory when its last
\* name is "functions" (one level only), and the empty scope when there is
\* no path annotation.
C6_ScopeResolution ==
    pc \in {"scope", "write"} =>
        IF ~Config.hasPath THEN functionDir = <<>>
        ELSE LET d      == DirNames(Config.path)
                 rooted == Config.path[1] = "/"
                 e      == IF d # <<>> /\ d[Len(d)] = functionsDirectoryName
                              THEN SubSeq(d, 1, Len(d) - 1) ELSE d
             IN  functionDir = Written(e, rooted)

\* C6 witness: the scope of a function in stuff/functions is stuff
C6_Witness ==
    /\ pc = "scope"
    /\ Config.hasPath
    /\ Config.path = <<"a", "/", "functions", "/">> \o fnFile
    /\ functionDir = <<"a">>

\* the part of the path p before its file name, which is as long as fname
Before(p, fname) == SubSeq(p, 1, Len(p) - Len(fname))

\* the function config and the resource i are files of one directory
\* named "functions"
Siblings(i) ==
    /\ Config.hasPath /\ nodes[i].hasPath
    /\ Before(Config.path, fnFile) = Before(nodes[i].path, resFile)
    /\ InFunctionsDir(Config.path)

\* C7: a resource stored in the "functions" directory of the function
\* config is in scope: its rewritten directory is the scope directory.
C7_SiblingsInScope ==
    (pc = "write" /\ ~GlobalScope) =>
        \A i \in DOMAIN nodes :
            Siblings(i) =>
                /\ Count(input, i) = 1
                /\ resourceDir(nodes[i].path) = functionDir

\* C7 witness: a/functions/y.yaml is in the scope of a/functions/x.yaml
C7_Witness ==
    /\ pc = "write" /\ ~GlobalScope
    /\ Siblings(1)
    /\ Before(Config.path, fnFile) = <<"a", "/", "functions", "/">>
    /\ Count(input, 1) = 1

\* Filter has returned a collection
Returned == pc = "done" /\ err \in {"nil", "exit", "spawn"}

\* C8: the collection Filter returns is the function's decoded output in
\* the order emitted, then the out-of-scope resources; these are input
\* resources, unchanged, and none of them was in the payload.
C8_MergePassThrough ==
    Returned =>
        /\ Len(ret) = Len(out.items) + Len(saved)
        /\ \A i \in DOMAIN out.items : ret[i].id = out.items[i].id
        /\ \A j \in DOMAIN saved :
              /\ ret[Len(out.items) + j] = saved[j]
              /\ saved[j].id \in DOMAIN nodes
              /\ saved[j] = nodes[saved[j].id]
              /\ \A k \in DOMAIN in.items : in.items[k].id # saved[j].id

\* C8 witness: a return of two output resources and an out-of-scope one
C8_Witness ==
    Returned /\ err = "nil" /\ Len(out.items) >= 2 /\ saved # <<>>

\* the file name p without ".yaml"
Stem(p) == LET b == Base(p) IN SubSeq(b, 1, Len(b) - 2)

\* C10 as claimed: a resource the function emits without a path annotation
\* is returned with the path dir/stem/namespace/kind_name.yaml, dir being
\* the scope directory and stem the file name of the function config.
C10_DefaultPath ==
    (pc = "done" /\ err = "nil" /\ Config.hasPath /\ Rooted(functionDir)) =>
        \A i \in DOMAIN out.items :
            ~out.items[i].hasPath =>
                /\ ret[i].hasPath
                /\ ret[i].path =
                      Join(<<functionDir, Stem(Config.path),
                             out.items[i].namespace,
                             ToLower(out.items[i].kind) \o <<"_">>
                                 \o out.items[i].name \o <<".", "yaml">>>>)


\* C11: a resource the function emitted with a path annotation is returned
\* with that annotation; only resources emitted without one are changed,
\* and the out-of-scope resources are returned as they came in.
C11_NeverOverwrites ==
    Returned =>
        /\ \A i \in DOMAIN out.items :
              /\ out.items[i].hasPath =>
                    ret[i].hasPath /\ ret[i].path = out.items[i].path
              /\ ret[i] # out.items[i] => ~out.items[i].hasPath
        /\ \A j \in DOMAIN saved :
              ret[Len(out.items) + j] = nodes[saved[j].id]

\* C11 witness: a return after defaulting of an output resource that had a
\* path and one that had none, and of an out-of-scope resource without path
C11_Witness ==
    /\ Returned /\ err = "nil"
    /\ \E i \in DOMAIN out.items : out.items[i].hasPath
    /\ \E i \in DOMAIN out.items : ~out.items[i].hasPath /\ ret[i].hasPath
    /\ \E j \in DOMAIN saved : ~saved[j].hasPath

\* C12 as claimed: when the process cannot be started, Filter returns a
\* non-nil error, with or without DeferFailure.
C12_SpawnSurfaced ==
    (pc = "done" /\ out.exit = "spawn") => err # "nil"

\* C13: a failure of scope resolution, of the split, of the encoding, of
\* the decoding or of the results file is the error Filter returns, with
\* no collection, whatever the exit of the process and DeferFailure.
C13_FatalNotMasked ==
    pc = "done" =>
        /\ ~Config.metaOk => err = "meta" /\ ret = <<>>
        /\ (/\ Config.metaOk /\ ~GlobalScope /\ Rooted(functionDir)
            /\ \E i \in DOMAIN nodes : ~nodes[i].metaOk)
           => err = "meta" /\ ret = <<>>
        /\ out.garbage => err = "decode" /\ ret = <<>>
        /\ err \in {"meta", "encode", "decode", "write"} => ret = <<>>

\* C13 witness: the results file could not be written after a non-zero
\* exit with output and out-of-scope resources at hand
C13_Witness ==
    /\ pc = "done" /\ err = "write" /\ out.exit = "exit"
    /\ out.items # <<>> /\ saved # <<>>
    /\ ret = <<>>

\* C18: after a non-zero exit without DeferFailure the output is returned
\* as emitted, resources without path annotation staying without; on a
\* return without error every output resource has a path annotation; on
\* both, a results document was recorded, and written when ResultsFile is
\* set.
C18_DefaultingOnSuccessPath ==
    Returned =>
        /\ (out.exit # "nil" /\ ~DeferFailure) =>
              /\ err = out.exit
              /\ \A i \in DOMAIN out.items : ret[i] = out.items[i]
        /\ (out.exit = "nil" \/ DeferFailure) =>
              /\ err = "nil"
              /\ \A i \in DOMAIN out.items : ret[i].hasPath
        /\ out.results # "nil" =>
              /\ Results = out.results
              /\ ResultsFile => file = out.results

\* C18 witness: a failed function whose new resource is returned without a
\* path annotation, its results document written
C18_Witness ==
    /\ Returned /\ out.exit = "exit" /\ ~DeferFailure
    /\ \E i \in DOMAIN out.items : ~ret[i].hasPath
    /\ ResultsFile /\ file = "doc"

\* C18 witness of the other path: a deferred failure whose new resource got
\* its default path
C18_WitnessDeferred ==
    /\ Returned /\ out.exit = "exit" /\ DeferFailure
    /\ \E i \in DOMAIN out.items : ~out.items[i].hasPath /\ ret[i].hasPath


\* C14: in an execution of Filter the process is run at most once; it is
\* not run when scope resolution, the split or the encoding failed; every
\* step after the run finds the process ended; and the output of a process
\* that exited non-zero is decoded all the same.
C14_SingleRun ==
    /\ runs <= 1
    /\ pc \in {"idle", "getFunctionScope", "scope", "write", "run"} =>
          runs = 0 /\ proc = "none"
    /\ pc \in {"read", "doResults", "exitCheck", "defaultPath"} =>
          runs = 1 /\ proc \in {"failed", "exited"}
    /\ pc = "done" =>
          IF \/ ~Config.metaOk
             \/ (~GlobalScope /\ Rooted(functionDir)
                   /\ \E i \in DOMAIN nodes : ~nodes[i].metaOk)
             \/ err = "encode"
             THEN runs = 0 /\ proc = "none"
             ELSE runs = 1 /\ proc \in {"failed", "exited"}
    /\ (pc \in {"doResults", "exitCheck", "defaultPath"} /\ out.exit = "exit") =>
          output = out.items

\* C14 witness: Filter has returned the error of a process that was run
\* once and whose output, written before a non-zero exit, was decoded
C14_Witness ==
    /\ pc = "done" /\ err = "exit" /\ runs = 1 /\ proc = "exited"
    /\ output # <<>> /\ output = out.items


\* C16: IsReconcilerFilter.Filter returns a subsequence of its input, with
\* each reconciler iff ExcludeReconcilers is false and each other resource
\* iff IncludeNonReconcilers is true, none twice, none changed.
C16_ReconcilerSelection ==
    rdone =>
        /\ \A k \in DOMAIN rout :
              rout[k].id \in DOMAIN inputs /\ rout[k] = inputs[rout[k].id]
        /\ \A k, l \in DOMAIN rout : k < l => rout[k].id < rout[l].id
        /\ \A i \in DOMAIN inputs :
              Count(rout, i) =
                 IF inputs[i].image \/ inputs[i].annotated
                    THEN (IF ExcludeReconcilers THEN 0 ELSE 1)
                    ELSE (IF IncludeNonReconcilers THEN 1 ELSE 0)

\* C16 witness: both kinds of resource were given and both were kept
C16_Witness ==
    /\ rdone /\ ~ExcludeReconcilers /\ IncludeNonReconcilers
    /\ Len(inputs) >= 2 /\ Len(rout) = Len(inputs)
    /\ \E i \in DOMAIN inputs : inputs[i].image
    /\ \E i \in DOMAIN inputs : ~inputs[i].image /\ ~inputs[i].annotated


\* what r returned is what a call of Filter returns for r's Config, flags
\* and input and for what r's process wrote, whether the encoding failed
\* (the process was not run) or the results file could not be written
LoneReturn(r) ==
    LET fs == getFunctionScope(r.Config)
        sc == scope(r.GlobalScope, fs.dir, r.nodes)
    IN  IF fs.err # "nil" THEN r.ret = <<>> /\ r.err = fs.err
        ELSE IF sc.err # "nil" THEN r.ret = <<>> /\ r.err = sc.err
        ELSE IF r.runs = 0 THEN r.ret = <<>> /\ r.err = "encode"
        ELSE IF r.out.garbage THEN r.ret = <<>> /\ r.err = "decode"
        ELSE IF r.err = "write"
             THEN r.ret = <<>> /\ r.ResultsFile /\ r.out.results # "nil"
        ELSE IF r.out.exit # "nil" /\ ~r.DeferFailure
             THEN r.ret = r.out.items \o sc.saved /\ r.err = r.out.exit
        ELSE LET f == finish(fs.dir, r.out.items, sc.saved)
             IN  IF f.err # "nil" THEN r.ret = <<>> /\ r.err = f.err
                 ELSE r.ret = f.ret /\ r.err = "nil"

\* doResults of r's call has recorded what the reader found
Recorded(r) == r.runs = 1 /\ ~r.out.garbage /\ r.err # "write"

\* C17 as claimed: what a call returns, the command line it used, and the
\* Exit and Results on the descriptor after it are those of a call with
\* the same descriptor fields, input and process on a new ContainerFilter.
C17_Stateless ==
    pc = "done" =>
        /\ LoneReturn(Me)
        /\ cmd.args = getArgs(Image, env)
        /\ GetExit = IF runs = 1 THEN out.exit ELSE "nil"
        /\ Results = IF Recorded(Me) THEN out.results ELSE "nil"

\* what the call of r left behind is what it leaves when it runs alone
AsAlone(r) ==
    r.pc = "done" =>
        /\ LoneReturn(r)
        /\ r.Exit = IF r.runs = 1 THEN r.out.exit ELSE "nil"
        /\ r.Results = IF Recorded(r) THEN r.out.results ELSE "nil"
        /\ r.cmd.args = getArgs(r.Image, env)
        /\ r.cmd.env = setenv(env)

\* C15: of two calls of Filter on two ContainerFilters, interleaved in any
\* way, each returns and leaves in Exit and Results what it does alone;
\* and the environment changes only by the two names being set to "true".
C15_Independent ==
    /\ [](AsAlone(Me) /\ AsAlone(peer))
    /\ [][env' # env => env' = setenv(env)]_vars

\* C15 witness: both calls have returned, one after a successful process
\* that wrote a results document, the other after a failed one that wrote
\* none
C15_Witness ==
    /\ pc = "done" /\ peer.pc = "done" /\ me = 2
    /\ Exit = "nil" /\ peer.Exit = "exit"
    /\ Results = "doc" /\ peer.Results = "nil"
    /\ ret # <<>> /\ peer.err = "exit"

====
